---- MODULE Spec2Model ----
(***************************************************************************)
(* Battery discharge simulation: the Batterysimulator class of             *)
(* Battery_simulation_project.py (constructor, peukert_capacity and        *)
(* discharge_simulation) as a state machine.                               *)
(*                                                                         *)
(* The program computes in IEEE doubles; the model computes in fixed       *)
(* point, every quantity an integer count of the unit named here:          *)
(*   time           1/TicksPerSecond s  (the grid of linspace is integral) *)
(*   current        1/CurrentScale A                                       *)
(*   charge Q       current unit * time unit                               *)
(*   capacity_As    1 As                                                   *)
(*   peukert factor 1/FactorScale                                          *)
(*   SOC            1/SocScale percent                                     *)
(*   voltage        1/VoltScale V                                          *)
(*   randn draws    1/NormalScale                                          *)
(* A division rounds down (\div), where the doubles round to nearest.      *)
(***************************************************************************)
EXTENDS Integers, Sequences, FiniteSets, TLC

\* ------------------------------------------------------------------ units
NumSamples == 1000
SecondsPerHour == 3600
PulsePeriod == 3600
TicksPerSecond == (NumSamples - 1) \div 9
CurrentScale == 100
FactorScale == 1000
SocScale == 100
VoltScale == 10000
NormalScale == 100
HourScale == 1000
ResistanceScale == 100
ExponentScale == 10

\* ----------------------------------------------------------------- bounds
MaxHours == 3
MaxSeed == 1

Min(a, b) == IF a < b THEN a ELSE b
Max(a, b) == IF a > b THEN a ELSE b

\* np.clip(x, lo, hi) == np.minimum(hi, np.maximum(x, lo))
Clip(x, lo, hi) == Min(Max(x, lo), hi)

\* An array of NumSamples elements held as an explicit tuple.
Arr(f) == SubSeq(f, 1, NumSamples)

\* --------------------------------------------------------------- __init__
Batterysimulator(capacity_Ah, initial_soc, nominal_voltage) ==
  [capacity_Ah |-> capacity_Ah,
   initial_SOC |-> initial_soc,
   nominal_voltage |-> nominal_voltage,
   internal_resistance |-> (5 * ResistanceScale) \div 100,   \* 0.05 ohm
   peukert_exponent |-> (11 * ExponentScale) \div 10,       \* 1.1
   capacity_As |-> capacity_Ah * SecondsPerHour]

\* ------------------------------------------------------- peukert_capacity
\* floor(log2(num / den)) for num, den > 0
RECURSIVE Log2Floor(_, _)
Log2Floor(num, den) ==
  IF num >= 2 * den THEN 1 + Log2Floor(num, 2 * den)
  ELSE IF num < den THEN Log2Floor(2 * num, den) - 1
  ELSE 0

RECURSIVE Pow2(_)
Pow2(n) == IF n <= 0 THEN 1 ELSE 2 * Pow2(n - 1)

\* 2 ^ (j / 10) for j = 0..9, in 1/FactorScale
Root2Table == <<1000, 1072, 1149, 1231, 1320, 1414, 1516, 1625, 1741, 1866>>

\* (num / den) ** (p / ExponentScale) in 1/FactorScale: the base is rounded down to a
\* power of two 2^e, whose power 2^(e*p/10) is exact in Root2Table.
Pow(num, den, p) ==
  IF num = 0 THEN 0
  ELSE LET x == Log2Floor(num, den) * p
           q == x \div 10
           j == x % 10
       IN IF q >= 0 THEN Root2Table[j + 1] * Pow2(q)
                    ELSE Root2Table[j + 1] \div Pow2(0 - q)

PeukertFactorRaw(self, current) ==
  LET I_ref == (self.capacity_Ah * CurrentScale) \div 20
  IN Pow(I_ref, current, self.peukert_exponent - 1 * ExponentScale)

PeukertNoClamp(f) == f

\* peukert_factor = max(0.3, min(2.0, peukert_factor))
PeukertClamp(f) == Max((3 * FactorScale) \div 10, Min(2 * FactorScale, f))

peukert_capacity(self, current) ==
  IF current <= 0 THEN self.capacity_As
  ELSE (self.capacity_As * PeukertClamp(PeukertFactorRaw(self, current))) \div FactorScale

\* ----------------------------------------------------- np.random (global)
\* The values a draw of np.random.randn can take, in 1/NormalScale.
NormalTable == <<-250, -100, -30, 0, 30, 100, 250>>

\* The k-th value of the block of draws made from generator state s.
Randn(s, k) == NormalTable[((s * 37 + k * k + 5 * k * (s + 1)) % Len(NormalTable)) + 1]

\* np.random.randn(len(t)) from generator state s
randn(s) == Arr([k \in 1..NumSamples |-> Randn(s, k)])

\* The generator state after n blocks of draws.
RngAdvance(s, n) == (s + n) % (MaxSeed + 1)

\* ---------------------------------------------------- discharge_simulation
Profiles == {"constant", "pulsed", "ramp", "random"}

linspaceOpen(stop) == Arr([i \in 1..NumSamples |-> ((i - 1) * stop) \div NumSamples])

\* np.linspace(0, stop, NumSamples)
linspace(stop) == Arr([i \in 1..NumSamples |-> ((i - 1) * stop) \div (NumSamples - 1)])

\* np.sign(np.sin(2 * np.pi * t / 3600)).  sin(0) is exactly 0.  At a later
\* multiple of the half period the double nearest to pi lies below pi, so the
\* computed angle lies just below the zero crossing and the sine keeps the
\* sign it had before the crossing.
SinSign(t) ==
  LET period == PulsePeriod * TicksPerSecond
  IN IF t = 0 THEN 0
     ELSE IF (t - 1) % period < period \div 2 THEN 1
     ELSE -1

ProfileCurrentUnparenthesised(current_profile, t, time_seconds, current_value, z) ==
  CASE current_profile = "constant" ->
         Arr([i \in 1..NumSamples |-> current_value])
    [] current_profile = "pulsed" ->
         Arr([i \in 1..NumSamples |->
                (current_value * 5 + 5 * CurrentScale * SinSign(t[i])) \div 10])
    [] current_profile = "ramp" ->
         Arr([i \in 1..NumSamples |->
                (current_value * (time_seconds + t[i])) \div (2 * time_seconds)])
    [] current_profile = "random" ->
         Arr([i \in 1..NumSamples |->
                Clip((current_value * (70 * NormalScale + 60 * z[i])) \div (100 * NormalScale),
                     current_value \div 10, 2 * current_value)])

\* The current series of lines 84-92, before noise; z is the block of draws
\* the 'random' profile makes.
ProfileCurrent(current_profile, t, time_seconds, current_value, z) ==
  CASE current_profile = "constant" ->
         Arr([i \in 1..NumSamples |-> current_value])
    [] current_profile = "pulsed" ->
         Arr([i \in 1..NumSamples |-> (current_value * (5 + 5 * SinSign(t[i]))) \div 10])
    [] current_profile = "ramp" ->
         Arr([i \in 1..NumSamples |->
                (current_value * (time_seconds + t[i])) \div (2 * time_seconds)])
    [] current_profile = "random" ->
         Arr([i \in 1..NumSamples |->
                Clip((current_value * (70 * NormalScale + 60 * z[i])) \div (100 * NormalScale),
                     current_value \div 10, 2 * current_value)])

\* I += 0.05 * current_value * np.random.randn(len(t))
AddNoise(I, current_value, z) ==
  Arr([i \in 1..NumSamples |-> I[i] + (5 * current_value * z[i]) \div (100 * NormalScale)])

\* Running sums of f, built left to right in blocks of ScanBlock elements.
ScanBlock == 32

RECURSIVE Scan(_, _, _)
Scan(f, acc, hi) ==
  IF Len(acc) >= hi THEN acc
  ELSE Scan(f, Append(acc, (IF acc = <<>> THEN 0 ELSE acc[Len(acc)]) + f[Len(acc) + 1]), hi)

RECURSIVE ScanBlocks(_, _)
ScanBlocks(f, acc) ==
  IF Len(acc) >= Len(f) THEN acc
  ELSE ScanBlocks(f, Scan(f, acc, Min(Len(acc) + ScanBlock, Len(f))))

CumSum(f) == ScanBlocks(f, <<>>)

cumulative_trapezoid_reversed(y, x) ==
  CumSum(Arr([i \in 1..NumSamples |->
                IF i = 1 THEN 0 ELSE ((y[i] + y[i - 1]) * (x[i - 1] - x[i])) \div 2]))

\* scipy.integrate.cumulative_trapezoid(y, x, initial=0)
cumulative_trapezoid(y, x) ==
  CumSum(Arr([i \in 1..NumSamples |->
                IF i = 1 THEN 0 ELSE ((y[i] + y[i - 1]) * (x[i] - x[i - 1])) \div 2]))

\* np.mean
Mean(a) == CumSum(a)[Len(a)] \div Len(a)

\* (Q / capacity) * 100 in 1/SocScale percent, Q in current*time units and the
\* capacity in As.
PercentOf(Q, capacity) ==
  ((Q \div TicksPerSecond) * ((100 * SocScale) \div CurrentScale)) \div capacity

SocOfUnclipped(initial_SOC, Q, avg_effective_capacity) ==
  initial_SOC * SocScale - PercentOf(Q, avg_effective_capacity)

\* SOC = clip(initial_SOC - (Q_discharged / avg_effective_capacity) * 100, 0, 100)
SocOf(initial_SOC, Q, avg_effective_capacity) ==
  Clip(initial_SOC * SocScale - PercentOf(Q, avg_effective_capacity), 0, 100 * SocScale)

OpenCircuitVoltageNoFloor(nominal_voltage, soc) ==
  nominal_voltage * ((100 * soc) \div 100) * (VoltScale \div (100 * SocScale))

\* OCV = nominal_voltage * (0.8 + 0.2 * SOC / 100)
OpenCircuitVoltage(nominal_voltage, soc) ==
  nominal_voltage * (80 * SocScale + (20 * soc) \div 100) * (VoltScale \div (100 * SocScale))

\* Lines 106-127: the series derived from the current series and the result.
Derive(self, t, I, Q_discharged, avg_effective_capacity) ==
  LET SOC == Arr([i \in 1..NumSamples |->
                    SocOf(self.initial_SOC, Q_discharged[i], avg_effective_capacity)])
      V_terminal == Arr([i \in 1..NumSamples |->
                 OpenCircuitVoltage(self.nominal_voltage, SOC[i])
                 - (I[i] * self.internal_resistance * VoltScale)
                     \div (CurrentScale * ResistanceScale)])
  IN [time_hours |-> Arr([i \in 1..NumSamples |->
                            (t[i] * HourScale) \div (SecondsPerHour * TicksPerSecond)]),
      time_seconds |-> t,
      current_A |-> I,
      SOC_percent |-> SOC,
      voltage_V |-> V_terminal,
      power_W |-> Arr([i \in 1..NumSamples |-> V_terminal[i] * I[i]]),
      remaining_capacity_Ah |-> Arr([i \in 1..NumSamples |-> self.capacity_Ah * SOC[i]]),
      effective_capacity_As |-> avg_effective_capacity]

Integrate(self, t, I) ==
  Derive(self, t, I, cumulative_trapezoid(I, t),
         Mean(Arr([i \in 1..NumSamples |-> peukert_capacity(self, I[i])])))

SimulateReturnsProfile(self, time_hours, current_profile, current_value, add_noise, s) ==
  LET time_seconds == time_hours * SecondsPerHour * TicksPerSecond
      t == linspace(time_seconds)
      I0 == ProfileCurrent(current_profile, t, time_seconds, current_value, randn(s))
      s1 == IF current_profile = "random" THEN RngAdvance(s, 1) ELSE s
  IN [Integrate(self, t, IF add_noise THEN AddNoise(I0, current_value, randn(s1)) ELSE I0)
        EXCEPT !.current_A = I0]

\* The body of discharge_simulation for a valid profile, run from generator
\* state s.
Simulate(self, time_hours, current_profile, current_value, add_noise, s) ==
  LET time_seconds == time_hours * SecondsPerHour * TicksPerSecond
      t == linspace(time_seconds)
      I0 == ProfileCurrent(current_profile, t, time_seconds, current_value, randn(s))
      s1 == IF current_profile = "random" THEN RngAdvance(s, 1) ELSE s
  IN Integrate(self, t, IF add_noise THEN AddNoise(I0, current_value, randn(s1)) ELSE I0)

\* The number of blocks of draws the call makes.
Draws(current_profile, add_noise) ==
  (IF current_profile = "random" THEN 1 ELSE 0) + (IF add_noise THEN 1 ELSE 0)

\* The generator state the call leaves: the invalid profile raises at line 94,
\* before the draws of line 98.
RngAfterEager(s, current_profile, add_noise) ==
  RngAdvance(s, Draws(current_profile, add_noise))

RngAfterCall(s, current_profile, add_noise) ==
  IF current_profile \in Profiles THEN RngAdvance(s, Draws(current_profile, add_noise))
  ELSE s

\* The object after a call of discharge_simulation that returned r: no line
\* of the method assigns an attribute of self.
SelfAfterWriteBack(obj, r) ==
  [obj EXCEPT !.initial_SOC = r.SOC_percent[NumSamples] \div SocScale]

SelfAfterCall(obj, r) == obj

\* ------------------------------------------------------------------ state
VARIABLES
  self,         \* the Batterysimulator object
  constructed,  \* history: the fields as __init__ set them
  rngState,     \* state of the global numpy generator
  pc,           \* "ready" or "called"
  call,         \* the call in progress or last made
  outcome,      \* "none", "pending", "returned" or "raised"
  result,       \* the value returned, or NoResult
  everRaised    \* history: some call so far has raised

vars == <<self, constructed, rngState, pc, call, outcome, result, everRaised>>

NoResult == [none |-> TRUE]
NoCall == [op |-> "none"]

\* Constructor arguments: <<capacity_Ah, initial_soc, nominal_voltage>>
Batteries == {<<10, 100, 12>>, <<10, 50, 12>>, <<250, 120, 24>>, <<1, -10, 6>>}
Hours == 1..MaxHours
ProfileNames == Profiles \cup {"triangle"}
CurrentValues == {-500, 0, 1, 500}
PeukertCurrents == {-500, 0, 1, 5, 50, 500, 1000000}

Init ==
  /\ \E b \in Batteries : self = Batterysimulator(b[1], b[2], b[3])
  /\ constructed = self
  /\ rngState \in 0..MaxSeed
  /\ pc = "ready"
  /\ call = NoCall
  /\ outcome = "none"
  /\ result = NoResult
  /\ everRaised = FALSE

\* A caller invokes battery.discharge_simulation(...)
CallDischarge ==
  /\ pc = "ready"
  /\ \E h \in Hours, p \in ProfileNames, cv \in CurrentValues, n \in BOOLEAN :
       call' = [op |-> "discharge_simulation", time_hours |-> h,
                current_profile |-> p, current_value |-> cv, add_noise |-> n]
  /\ pc' = "called"
  /\ outcome' = "pending"
  /\ result' = NoResult
  /\ UNCHANGED <<self, constructed, rngState, everRaised>>

\* A caller invokes battery.peukert_capacity(current)
CallPeukert ==
  /\ pc = "ready"
  /\ \E c \in PeukertCurrents : call' = [op |-> "peukert_capacity", current |-> c]
  /\ pc' = "called"
  /\ outcome' = "pending"
  /\ result' = NoResult
  /\ UNCHANGED <<self, constructed, rngState, everRaised>>

\* The body of peukert_capacity
PeukertCapacityRun ==
  /\ pc = "called"
  /\ call.op = "peukert_capacity"
  /\ result' = peukert_capacity(self, call.current)
  /\ outcome' = "returned"
  /\ pc' = "ready"
  /\ UNCHANGED <<self, constructed, rngState, call, everRaised>>

\* The body of discharge_simulation
DischargeSimulationRun ==
  /\ pc = "called"
  /\ call.op = "discharge_simulation"
  /\ IF call.current_profile \in Profiles
       THEN /\ result' = Simulate(self, call.time_hours, call.current_profile,
                                  call.current_value, call.add_noise, rngState)
            /\ outcome' = "returned"
            /\ self' = SelfAfterCall(self, result')
            /\ everRaised' = everRaised
       ELSE /\ result' = NoResult
            /\ outcome' = "raised"
            /\ self' = self
            /\ everRaised' = TRUE
  /\ rngState' = RngAfterCall(rngState, call.current_profile, call.add_noise)
  /\ pc' = "ready"
  /\ UNCHANGED <<constructed, call>>

Next ==
  \/ CallDischarge
  \/ CallPeukert
  \/ PeukertCapacityRun
  \/ DischargeSimulationRun

Spec == Init /\ [][Next]_vars

\* ---------------------------------------------------------------- claims
Samples == 1..NumSamples

\* A call of discharge_simulation has returned its result.
Returned ==
  /\ pc = "ready"
  /\ call.op = "discharge_simulation"
  /\ outcome = "returned"

PeukertReturned ==
  /\ pc = "ready"
  /\ call.op = "peukert_capacity"
  /\ outcome = "returned"

NoiseFree(profile) == Returned /\ call.current_profile = profile /\ ~call.add_noise

\* C1: every sample of the SOC series of every returned result lies in
\* [0, 100] percent, for every profile, current value (negative too), initial
\* SOC (out of range too) and with noise on or off.
C1_SocInRange ==
  Returned => \A i \in Samples :
                /\ 0 <= result.SOC_percent[i]
                /\ result.SOC_percent[i] <= 100 * SocScale

\* A noisy random-profile run that starts above the floor and is driven to it.
C1_Witness ==
  /\ Returned
  /\ call.current_profile = "random"
  /\ call.add_noise
  /\ result.SOC_percent[1] > 0
  /\ result.SOC_percent[NumSamples] = 0

\* C2: a call with a profile name outside the four kinds raises, returns no
\* result, and leaves the random generator where it was (no noise is drawn),
\* whatever time_hours, current_value and add_noise are.
C2_InvalidProfileRaises ==
  [][(/\ pc = "called"
      /\ call.op = "discharge_simulation"
      /\ call.current_profile \notin Profiles)
     => (/\ outcome' = "raised"
         /\ result' = NoResult
         /\ rngState' = rngState)]_vars

C2_Witness ==
  /\ pc = "ready"
  /\ call.op = "discharge_simulation"
  /\ call.current_profile = "triangle"
  /\ call.add_noise
  /\ outcome = "raised"
  /\ result = NoResult

\* C3 as stated: for the constant profile without noise the SOC series is
\* non-increasing, for every current_value.
C3_Original ==
  NoiseFree("constant") =>
    \A i \in 1..(NumSamples - 1) : result.SOC_percent[i + 1] <= result.SOC_percent[i]

\* C3 amended: for the constant profile without noise and current_value >= 0
\* the SOC series is non-increasing.
C3_SocNonIncreasing ==
  (NoiseFree("constant") /\ call.current_value >= 0) =>
    \A i \in 1..(NumSamples - 1) : result.SOC_percent[i + 1] <= result.SOC_percent[i]

C3_Witness ==
  /\ NoiseFree("constant")
  /\ call.current_value > 0
  /\ result.SOC_percent[NumSamples] < result.SOC_percent[1]

\* C4 as stated: with current_value = 0 and no noise every SOC sample equals
\* the model's initial_soc.
C4_Original ==
  (Returned /\ call.current_value = 0 /\ ~call.add_noise) =>
    \A i \in Samples : result.SOC_percent[i] = self.initial_SOC * SocScale

\* C4 amended: with current_value = 0 and no noise the current is 0 at every
\* sample and every SOC sample equals initial_soc clamped into [0, 100], which
\* is initial_soc itself when 0 <= initial_soc <= 100.
C4_ZeroCurrentKeepsSoc ==
  (Returned /\ call.current_value = 0 /\ ~call.add_noise) =>
    \A i \in Samples :
      /\ result.current_A[i] = 0
      /\ result.SOC_percent[i] = Clip(self.initial_SOC, 0, 100) * SocScale
      /\ (0 <= self.initial_SOC /\ self.initial_SOC <= 100)
           => result.SOC_percent[i] = self.initial_SOC * SocScale

C4_Witness ==
  /\ Returned
  /\ call.current_value = 0
  /\ ~call.add_noise
  /\ call.current_profile = "random"
  /\ self.initial_SOC = 50
  /\ result.SOC_percent[NumSamples] = 50 * SocScale

\* C5: peukert_capacity returns a value in [0.3, 2.0] * capacity_As for every
\* current and exactly capacity_As for a current <= 0; the mean effective
\* capacity a simulation divides by lies in the same interval and is not 0.
C5_PeukertClamped ==
  /\ PeukertReturned =>
       /\ 3 * self.capacity_As <= 10 * result
       /\ 10 * result <= 20 * self.capacity_As
       /\ call.current <= 0 => result = self.capacity_As
  /\ Returned =>
       /\ 3 * self.capacity_As <= 10 * result.effective_capacity_As
       /\ 10 * result.effective_capacity_As <= 20 * self.capacity_As
       /\ result.effective_capacity_As # 0

\* A current so large that the lower clamp decides the value.
C5_Witness ==
  /\ PeukertReturned
  /\ call.current = 1000000
  /\ 10 * result = 3 * self.capacity_As

\* C6: for the pulsed profile without noise every sample of the current
\* series, the one at t = 0 included, is 0 or current_value.
C6_PulsedSquareWave ==
  NoiseFree("pulsed") =>
    \A i \in Samples : result.current_A[i] \in {0, call.current_value}

\* The manual recomputation of the SOC series from a charge series Q and a
\* capacity.
ManualSoc(Q, capacity) ==
  Arr([i \in Samples |-> SocOf(self.initial_SOC, Q[i], capacity)])

\* C7: clamp(initial_soc - Q / effective_capacity_As * 100, 0, 100), with Q the
\* cumulative trapezoid of the returned current_A over the returned
\* time_seconds and effective_capacity_As the returned scalar, is the returned
\* SOC series, sample for sample, for every profile, noise on or off.
C7_RoundTrip ==
  Returned =>
    SubSeq(result.SOC_percent, 1, NumSamples)
      = ManualSoc(cumulative_trapezoid(result.current_A, result.time_seconds),
                  result.effective_capacity_As)

\* A noisy run whose mean effective capacity differs from the nominal one and
\* whose SOC moved.
C7_Witness ==
  /\ Returned
  /\ call.add_noise
  /\ call.current_profile = "pulsed"
  /\ result.effective_capacity_As # self.capacity_As
  /\ result.SOC_percent[NumSamples] # result.SOC_percent[1]

\* Open-circuit voltage at a SOC, and the drop over the internal resistance.
OcvAt(soc) ==
  self.nominal_voltage * (80 * SocScale + (20 * soc) \div 100)
    * (VoltScale \div (100 * SocScale))
DropAt(current) ==
  (current * self.internal_resistance * VoltScale) \div (CurrentScale * ResistanceScale)

\* C8: every returned series has NumSamples (1000) elements and sample i of
\* each describes grid instant t[i]: the time series are the grid, voltage_V[i]
\* and power_W[i] are computed from current_A[i] and SOC_percent[i].
C8_SeriesAligned ==
  Returned =>
    /\ \A f \in {"time_hours", "time_seconds", "current_A", "SOC_percent",
                 "voltage_V", "power_W", "remaining_capacity_Ah"} :
         Len(result[f]) = 1000
    /\ \A i \in Samples :
         /\ result.time_seconds[i]
              = ((i - 1) * call.time_hours * SecondsPerHour * TicksPerSecond)
                  \div (NumSamples - 1)
         /\ result.time_hours[i]
              = (result.time_seconds[i] * HourScale) \div (SecondsPerHour * TicksPerSecond)
         /\ result.voltage_V[i] = OcvAt(result.SOC_percent[i]) - DropAt(result.current_A[i])
         /\ result.power_W[i] = result.voltage_V[i] * result.current_A[i]
         /\ result.remaining_capacity_Ah[i] = self.capacity_Ah * result.SOC_percent[i]

C8_Witness ==
  /\ Returned
  /\ call.add_noise
  /\ call.current_profile = "ramp"
  /\ result.current_A[1] # result.current_A[NumSamples]
  /\ result.power_W[NumSamples] # result.power_W[1]

\* The scenario of C9.
Scenario ==
  /\ self = Batterysimulator(10, 100, 12)
  /\ NoiseFree("constant")
  /\ call.time_hours = 3
  /\ call.current_value = 5 * CurrentScale

\* C9: in the scenario every terminal voltage lies in [9.0, 12.1] V and the
\* final SOC is below the initial SOC; for the constant profile without noise
\* every voltage lies in [0.8 * nominal - I * R, nominal - I * R].
C9_VoltageBounds ==
  /\ Scenario =>
       /\ \A i \in Samples : /\ 9 * VoltScale <= result.voltage_V[i]
                             /\ 10 * result.voltage_V[i] <= 121 * VoltScale
       /\ result.SOC_percent[NumSamples] < self.initial_SOC * SocScale
  /\ NoiseFree("constant") =>
       \A i \in Samples :
         /\ (8 * self.nominal_voltage * VoltScale) \div 10 - DropAt(call.current_value)
              <= result.voltage_V[i]
         /\ result.voltage_V[i]
              <= self.nominal_voltage * VoltScale - DropAt(call.current_value)

\* The scenario run, discharged to the floor 9.6 V - 0.25 V.
C9_Witness ==
  /\ Scenario
  /\ result.voltage_V[1] = 12 * VoltScale - DropAt(5 * CurrentScale)
  /\ result.voltage_V[NumSamples] = (96 * VoltScale) \div 10 - DropAt(5 * CurrentScale)

\* C10: after any sequence of calls, failed ones included, the fields of the
\* model are the ones the constructor set and capacity_As = capacity_Ah * 3600;
\* a noise-free call with a non-random profile returns what the constructed
\* model returns for these arguments, whatever preceded it.
C10_ModelUnchanged ==
  /\ self = constructed
  /\ self.capacity_As = self.capacity_Ah * 3600
  /\ (Returned /\ ~call.add_noise /\ call.current_profile # "random") =>
       result = Simulate(constructed, call.time_hours, call.current_profile,
                         call.current_value, FALSE, 0)

\* A noise-free call that returned after an earlier call had raised.
C10_Witness ==
  /\ everRaised
  /\ NoiseFree("pulsed")
  /\ call.current_value # 0
  /\ rngState # 0

====
